---- MODULE Spec2Model ----
(***************************************************************************)
(* CommandListManager::solve of the pilz_industrial_motion_planner         *)
(* (command_list_manager.cpp): validation of a motion sequence request,    *)
(* planning of its items one after the other, resolution of the blend      *)
(* radii, the overlap check, the assembly of the responses by the plan     *)
(* components builder and the de-duplication of the built trajectories.    *)
(*                                                                         *)
(* A solve call is a sequence of steps; pc is the position of the call.    *)
(* Indices of the C++ containers are 0-based, TLA+ sequences are 1-based:  *)
(* the C++ element k is element k + 1 of the sequence.                     *)
(***************************************************************************)
EXTENDS Integers, Sequences, FiniteSets, TLC

\* ------------------------------------------------------------------ bounds

\* Longest request list of the general specification; the overlap
\* specification has one item more.
MaxItems == 3
\* Most way points of a built trajectory.
MaxWaypoints == 4
\* Largest time-from-start of a built way point.
MaxTime == 2
\* Consecutive solve calls of the specification of repeated calls.
MaxCalls == 2

\* ------------------------------------------------------------- the inputs

\* moveit_msgs::msg::MoveItErrorCodes values
SUCCESS == 1
FAILURE == 99999
PLANNING_FAILED == -1

\* The value of std::numeric_limits<size_t>::max(), as far as the model
\* needs it: larger than every index the model can hold.
SIZE_MAX == 2147483647

Groups == {"g1", "g2"}

\* The fields of start_state.joint_state that a request can fill.
Fields == {"position", "velocity", "effort", "name"}

\* Explicit start states of a request: the set of its non-empty fields.
StartStates == {{}, {"position"}, {"name"}}

\* Blend radii of an item (meters, scaled to integers).
Radii == {-1, 0, 1}

\* Tip frame positions of the last way point of a planned trajectory (on a
\* line, so that the norm of a difference is the absolute value).
Positions == {0, 2}

ErrorCodes == {SUCCESS, FAILURE, PLANNING_FAILED}

\* The robot models: the set of groups that have a kinematics solver.
Models == {Groups, {"g1"}}

\* A start state that was never set by robotStateToRobotStateMsg.
NoWaypoint == -1

\* MotionSequenceItem: req.group_name, blend_radius, req.start_state
Item(g, r, s) ==
    [group_name |-> g, blend_radius |-> r,
     start_state |-> [joint_state |-> s, from_waypoint |-> NoWaypoint]]

ItemsOf(gs, rs, ss) == {Item(g, r, s) : g \in gs, r \in rs, s \in ss}

ListsUpTo(n, items) == UNION {[1..k -> items] : k \in 0..n}

Abs(x) == IF x < 0 THEN -x ELSE x

Last(s) == s[Len(s)]

\* The sequence s without its element at position k (1-based).
RemoveAt(s, k) == [j \in 1..(Len(s) - 1) |-> IF j < k THEN s[j] ELSE s[j + 1]]

\* ------------------------------------------------------------- exceptions

NoException == "none"

\* What a solve call ends with: kind is "ok" for a returned container, or
\* the name of the exception; error_code, index and group are what the
\* exception carries (0, -1, "" when it carries none).
Outcome(kind, code, idx, grp) ==
    [kind |-> kind, error_code |-> code, index |-> idx, group |-> grp]

Pending == Outcome("pending", 0, -1, "")
Returned == Outcome("ok", 0, -1, "")
Thrown(kind) == Outcome(kind, 0, -1, "")

StructuralErrors ==
    {"NegativeBlendRadiusException", "LastBlendRadiusNotZeroException",
     "StartStateSetException"}

\* ------------------------------------------------------- SequenceValidator

\* Mutant: any_of in place of all_of.
checkForNegativeRadiiAnyOf(req_list) ==
    IF ~(\E k \in 1..Len(req_list) : req_list[k].blend_radius >= 0)
    THEN Thrown("NegativeBlendRadiusException")
    ELSE Thrown(NoException)

checkForNegativeRadii(req_list) ==
    IF ~(\A k \in 1..Len(req_list) : req_list[k].blend_radius >= 0)
    THEN Thrown("NegativeBlendRadiusException")
    ELSE Thrown(NoException)

\* Declared in command_list_manager.h; called by solve on a non-empty list.
checkLastBlendRadiusZero(req_list) ==
    IF Last(req_list).blend_radius # 0
    THEN Thrown("LastBlendRadiusNotZeroException")
    ELSE Thrown(NoException)

RECURSIVE getGroupNamesFrom(_, _, _)
getGroupNamesFrom(req_list, k, group_names) ==
    IF k > Len(req_list) THEN group_names
    ELSE IF \E j \in 1..Len(group_names) : group_names[j] = req_list[k].group_name
         THEN getGroupNamesFrom(req_list, k + 1, group_names)
         ELSE getGroupNamesFrom(req_list, k + 1,
                                Append(group_names, req_list[k].group_name))

\* The group names of the list, each once, in the order of first occurrence.
getGroupNames(req_list) == getGroupNamesFrom(req_list, 1, <<>>)

\* Mutant: the names of the joint state are not looked at.
startStateIsEmptyNoName(start_state) ==
    /\ "position" \notin start_state.joint_state
    /\ "velocity" \notin start_state.joint_state
    /\ "effort" \notin start_state.joint_state

\* The test of checkStartStatesOfGroup on one item's start state.
startStateIsEmpty(start_state) ==
    /\ "position" \notin start_state.joint_state
    /\ "velocity" \notin start_state.joint_state
    /\ "effort" \notin start_state.joint_state
    /\ "name" \notin start_state.joint_state

RECURSIVE checkStartStatesOfGroupFrom(_, _, _, _)
checkStartStatesOfGroupFrom(req_list, group_name, k, first_elem) ==
    IF k > Len(req_list) THEN Thrown(NoException)
    ELSE IF req_list[k].group_name # group_name
         THEN checkStartStatesOfGroupFrom(req_list, group_name, k + 1, first_elem)
    ELSE IF first_elem
         THEN checkStartStatesOfGroupFrom(req_list, group_name, k + 1, FALSE)
    ELSE IF ~startStateIsEmpty(req_list[k].start_state)
         THEN Outcome("StartStateSetException", 0, -1, group_name)
    ELSE checkStartStatesOfGroupFrom(req_list, group_name, k + 1, first_elem)

\* Mutant: the first request of the group is checked like the others.
checkStartStatesOfGroupNoFirst(req_list, group_name) ==
    checkStartStatesOfGroupFrom(req_list, group_name, 1, FALSE)

checkStartStatesOfGroup(req_list, group_name) ==
    checkStartStatesOfGroupFrom(req_list, group_name, 1, TRUE)

RECURSIVE checkStartStatesOver(_, _, _)
checkStartStatesOver(req_list, group_names, j) ==
    IF j > Len(group_names) THEN Thrown(NoException)
    ELSE LET e == checkStartStatesOfGroup(req_list, group_names[j])
         IN  IF e.kind # NoException THEN e
             ELSE checkStartStatesOver(req_list, group_names, j + 1)

checkStartStates(req_list) ==
    IF Len(req_list) <= 1 THEN Thrown(NoException)
    ELSE checkStartStatesOver(req_list, getGroupNames(req_list), 1)

\* Mutant: the check of the last blend radius is left out.
structuralChecksNoLast(req_list) ==
    LET neg == checkForNegativeRadii(req_list)
    IN  IF neg.kind # NoException THEN neg ELSE checkStartStates(req_list)

\* Mutant: a list of one item is not checked at all.
structuralChecksSkipSingle(req_list) ==
    LET neg == checkForNegativeRadii(req_list)
        last == checkLastBlendRadiusZero(req_list)
    IN  IF Len(req_list) <= 1 THEN Thrown(NoException)
        ELSE IF neg.kind # NoException THEN neg
        ELSE IF last.kind # NoException THEN last
        ELSE checkStartStates(req_list)

\* The three checks of solve, in its order: the first exception thrown.
structuralChecks(req_list) ==
    LET neg == checkForNegativeRadii(req_list)
        last == checkLastBlendRadiusZero(req_list)
    IN  IF neg.kind # NoException THEN neg
        ELSE IF last.kind # NoException THEN last
        ELSE checkStartStates(req_list)

\* ----------------------------------------------------- BlendRadiusResolver

\* a - b on size_t
SizeSub(a, b) == IF a >= b THEN a - b ELSE SIZE_MAX - (b - a) + 1

\* tip_frame_getter.h: whether the group of the model has a solver.
hasSolver(model, group_name) == group_name \in model

\* Mutant: the solver of the group is not looked up.
isInvalidBlendRadiiNoSolver(model, item_A, item_B) ==
    IF item_A.blend_radius = 0 THEN FALSE
    ELSE IF item_A.group_name # item_B.group_name THEN TRUE
    ELSE FALSE

\* isInvalidBlendRadii, lines 207-234: a radius of zero is never invalid;
\* another one is if the groups differ or the group has no solver.
isInvalidBlendRadii(model, item_A, item_B) ==
    IF item_A.blend_radius = 0 THEN FALSE
    ELSE IF item_A.group_name # item_B.group_name THEN TRUE
    ELSE IF ~hasSolver(model, item_A.group_name) THEN TRUE
    ELSE FALSE

\* Mutant: the container has one entry for each pair of adjacent items.
extractBlendRadiiOfPairs(model, req_list) ==
    [k \in 1..(Len(req_list) - 1) |->
        IF ~isInvalidBlendRadii(model, req_list[k], req_list[k + 1])
        THEN req_list[k].blend_radius ELSE 0]

\* RadiiCont radii(size, 0.), then radii.at(i) for i < size - 1.
extractBlendRadii(model, req_list) ==
    [k \in 1..Len(req_list) |->
        IF /\ k - 1 < SizeSub(Len(req_list), 1)
           /\ ~isInvalidBlendRadii(model, req_list[k], req_list[k + 1])
        THEN req_list[k].blend_radius
        ELSE 0]

\* isInvalidBlendRadii, lines 212-231: the checks it evaluates, in their
\* order: the radius (212), the groups of the two items (219), the solver
\* of the group (226).
blendRadiiChecks(model, item_A, item_B) ==
    IF item_A.blend_radius = 0
    THEN <<"radius">>
    ELSE IF item_A.group_name # item_B.group_name
         THEN <<"radius", "group">>
         ELSE <<"radius", "group", "solver">>

\* extractBlendRadii, lines 241-243: isInvalidBlendRadii is called once
\* for each of the pairs of adjacent items.
extractBlendRadiiChecks(model, req_list) ==
    [k \in 1..(Len(req_list) - 1) |->
        blendRadiiChecks(model, req_list[k], req_list[k + 1])]

\* --------------------------------------------------------- OverlapDetector

\* Mutant: trajectories of different groups are compared as well.
checkRadiiForOverlapAnyGroup(traj_A, radii_A, traj_B, radii_B) ==
    IF radii_A + radii_B = 0 THEN FALSE
    ELSE Abs(traj_A.last - traj_B.last) <= radii_A + radii_B

\* Mutant: < in place of <=.
checkRadiiForOverlapStrict(traj_A, radii_A, traj_B, radii_B) ==
    IF traj_A.group # traj_B.group THEN FALSE
    ELSE IF radii_A + radii_B = 0 THEN FALSE
    ELSE Abs(traj_A.last - traj_B.last) < radii_A + radii_B

checkRadiiForOverlap(traj_A, radii_A, traj_B, radii_B) ==
    IF traj_A.group # traj_B.group THEN FALSE
    ELSE IF radii_A + radii_B = 0 THEN FALSE
    ELSE Abs(traj_A.last - traj_B.last) <= radii_A + radii_B

\* The loop of checkForOverlappingRadii from the C++ index i on.
RECURSIVE checkForOverlappingRadiiFrom(_, _, _)
checkForOverlappingRadiiFrom(resps, rad, i) ==
    IF ~(i < SizeSub(Len(resps), 2)) THEN Thrown(NoException)
    ELSE IF checkRadiiForOverlap(resps[i + 1].trajectory, rad[i + 1],
                                 resps[i + 2].trajectory, rad[i + 2])
         THEN Outcome("OverlappingBlendRadiiException", 0, i, "")
         ELSE checkForOverlappingRadiiFrom(resps, rad, i + 1)

checkForOverlappingRadii(resps, rad) ==
    IF Len(resps) = 0 THEN Thrown(NoException)
    ELSE IF Len(resps) < 3 THEN Thrown(NoException)
    ELSE checkForOverlappingRadiiFrom(resps, rad, 0)

\* -------------------------------------------------------- SequencePlanner

\* The reverse iteration of getPreviousEndState from position k down: the
\* last way point of the first trajectory of the group, NoWaypoint if none.
RECURSIVE getPreviousEndStateFrom(_, _, _)
getPreviousEndStateFrom(responses, group_name, k) ==
    IF k < 1 THEN NoWaypoint
    ELSE IF responses[k].trajectory.group = group_name
         THEN responses[k].trajectory.last
         ELSE getPreviousEndStateFrom(responses, group_name, k - 1)

\* Mutant: the responses are iterated from the first one on, so the oldest
\* trajectory of the group is taken.
getPreviousEndStateOldest(responses, group_name) ==
    LET same == {k \in 1..Len(responses) :
                    responses[k].trajectory.group = group_name}
    IN  IF same = {} THEN NoWaypoint
        ELSE responses[CHOOSE k \in same : \A j \in same : k <= j].trajectory.last

getPreviousEndState(responses, group_name) ==
    getPreviousEndStateFrom(responses, group_name, Len(responses))

\* moveit::core::robotStateToRobotStateMsg: the message of a way point
\* names the joints and gives their positions.
robotStateToRobotStateMsg(waypoint) ==
    [joint_state |-> {"name", "position"}, from_waypoint |-> waypoint]

setStartState(responses, group_name, start_state) ==
    LET rob_state_op == getPreviousEndState(responses, group_name)
    IN  IF rob_state_op # NoWaypoint
        THEN robotStateToRobotStateMsg(rob_state_op)
        ELSE start_state

\* Mutant: the return value of generatePlan is not looked at.
errorCodeOfPlanIgnoreReturn(generated, val) == val

\* res.error_code.val after the call of generatePlan and the first if.
errorCodeOfPlan(generated, val) == IF ~generated THEN FAILURE ELSE val

\* ------------------------------------------------- PlanComponentsBuilder

NoTrajectory == [group |-> "", last |-> NoWaypoint]

\* A call of the builder, as the builder sees it.
BuilderCall(op, trajectory, blend_radius) ==
    [op |-> op, trajectory |-> trajectory, blend_radius |-> blend_radius]

\* The groups of the maximal runs of segments of one group, in order.
RECURSIVE groupRunsFrom(_, _, _)
groupRunsFrom(segs, k, runs) ==
    IF k > Len(segs) THEN runs
    ELSE IF k > 1 /\ segs[k].trajectory.group = segs[k - 1].trajectory.group
         THEN groupRunsFrom(segs, k + 1, runs)
         ELSE groupRunsFrom(segs, k + 1, Append(runs, segs[k].trajectory.group))

groupRuns(segs) == groupRunsFrom(segs, 1, <<>>)

\* The sequences of n time-from-start values that do not decrease.
NonDecreasing(n, tmax) ==
    {t \in [1..n -> 0..tmax] : \A j \in 1..(n - 1) : t[j] <= t[j + 1]}

\* The time-from-start values of a built trajectory of 1..n way points.
TimesUpTo(n, tmax) == UNION {NonDecreasing(k, tmax) : k \in 1..n}

\* A trajectory of the builder: way point j carries its time and j, its
\* position in the trajectory as built.
builtTrajectory(group_name, times) ==
    [group |-> group_name,
     waypoints |-> [j \in 1..Len(times) |-> [time |-> times[j], id |-> j]]]

\* What build() can return for the appended segments: one trajectory for
\* each maximal run of segments of one group, with times drawn from times.
buildResults(segs, times) ==
    LET runs == groupRuns(segs)
    IN  {[k \in 1..Len(runs) |-> builtTrajectory(runs[k], f[k])] :
            f \in [1..Len(runs) -> times]}

\* ------------------------------------------------------------------ state

VARIABLES
    model_,                 \* the robot model: the groups with a solver
    plan_comp_builder_,     \* the segments appended since the last reset
    pc,                     \* the position of the solve call
    calls,                  \* the solve calls that have returned or thrown
    req_list,               \* the request list of the call
    motion_plan_responses,  \* the local of solveSequenceItems
    resp_cont,              \* the responses solveSequenceItems returned
    radii,                  \* the result of extractBlendRadii
    res_vec,                \* the trajectories build() returned
    built,                  \* res_vec as build() returned it
    traj_k,                 \* the trajectory of res_vec the range-for is at
    i,                      \* the index of the running for loop
    result,                 \* how the call ended
    planner_log,            \* the calls of generatePlan during this call
    builder_log,            \* the calls of the builder during this call
    radii_log,              \* the checks isInvalidBlendRadii made, per pair
    builder_before          \* plan_comp_builder_ when the call began

vars ==
    <<model_, plan_comp_builder_, pc, calls, req_list, motion_plan_responses,
      resp_cont, radii, res_vec, built, traj_k, i, result, planner_log,
      builder_log, radii_log, builder_before>>

\* The locals and the observations of a call.
callVars ==
    <<motion_plan_responses, resp_cont, radii, res_vec, built, traj_k, i,
      planner_log, builder_log, radii_log>>

\* The manager after its construction, for a model of models.
InitWith(models) ==
    /\ model_ \in models
    /\ plan_comp_builder_ = <<>>
    /\ pc = "idle"
    /\ calls = 0
    /\ req_list = <<>>
    /\ motion_plan_responses = <<>>
    /\ resp_cont = <<>>
    /\ radii = <<>>
    /\ res_vec = <<>>
    /\ built = <<>>
    /\ traj_k = 1
    /\ i = 0
    /\ result = Pending
    /\ planner_log = <<>>
    /\ builder_log = <<>>
    /\ radii_log = <<>>
    /\ builder_before = <<>>

\* The caller calls solve with one of the requests, at most n times.
CallWith(requests, n) ==
    /\ pc = "idle"
    /\ calls < n
    /\ \E r \in requests : req_list' = r
    /\ pc' = "solve"
    /\ motion_plan_responses' = <<>>
    /\ resp_cont' = <<>>
    /\ radii' = <<>>
    /\ res_vec' = <<>>
    /\ built' = <<>>
    /\ traj_k' = 1
    /\ i' = 0
    /\ result' = Pending
    /\ planner_log' = <<>>
    /\ builder_log' = <<>>
    /\ radii_log' = <<>>
    /\ builder_before' = plan_comp_builder_
    /\ UNCHANGED <<model_, plan_comp_builder_, calls>>

\* Mutant: the builder is reset before the test for an empty list.
SolveEmptyAfterReset ==
    /\ pc = "solve"
    /\ req_list = <<>>
    /\ plan_comp_builder_' = <<>>
    /\ result' = Returned
    /\ pc' = "done"
    /\ UNCHANGED <<model_, calls, req_list, callVars, builder_before>>

\* solve, line 91: an empty list returns an empty container.
SolveEmpty ==
    /\ pc = "solve"
    /\ req_list = <<>>
    /\ result' = Returned
    /\ pc' = "done"
    /\ UNCHANGED <<model_, plan_comp_builder_, calls, req_list, callVars,
                   builder_before>>

\* Mutant: the builder is reset at the beginning of solve, before the
\* checks of the request list.
CheckRequestAfterReset ==
    /\ pc = "solve"
    /\ req_list # <<>>
    /\ plan_comp_builder_' = <<>>
    /\ builder_log' = Append(builder_log, BuilderCall("reset", NoTrajectory, 0))
    /\ LET e == structuralChecks(req_list)
       IN  IF e.kind # NoException
           THEN result' = e /\ pc' = "done"
           ELSE result' = result /\ pc' = "solveSequenceItems"
    /\ UNCHANGED <<model_, calls, req_list, motion_plan_responses, resp_cont,
                   radii, res_vec, built, traj_k, i, planner_log,
                   builder_before,
                   radii_log>>

\* solve, lines 96-98: the three checks of the request list.
CheckRequest ==
    /\ pc = "solve"
    /\ req_list # <<>>
    /\ LET e == structuralChecks(req_list)
       IN  IF e.kind # NoException
           THEN result' = e /\ pc' = "done"
           ELSE result' = result /\ pc' = "solveSequenceItems"
    /\ UNCHANGED <<model_, plan_comp_builder_, calls, req_list, callVars,
                   builder_before>>

\* solveSequenceItems, one pass of its loop: the planner is called for the
\* next item with the start state of setStartState and answers with its
\* return value, an error code and, for a plan, the end of the trajectory.
\* A throw unwinds motion_plan_responses.
GeneratePlanWith(positions) ==
    /\ pc = "solveSequenceItems"
    /\ Len(motion_plan_responses) < Len(req_list)
    /\ LET k == Len(motion_plan_responses)
           seq_item == req_list[k + 1]
           req == [group_name |-> seq_item.group_name,
                   start_state |-> setStartState(motion_plan_responses,
                                                 seq_item.group_name,
                                                 seq_item.start_state)]
       IN  \E generated \in BOOLEAN, val \in ErrorCodes, last \in positions :
             LET code == errorCodeOfPlan(generated, val)
             IN  /\ planner_log' =
                        Append(planner_log,
                               [index |-> k, req |-> req,
                                generated |-> generated, val |-> val,
                                last |-> IF code # SUCCESS THEN NoWaypoint
                                         ELSE last])
                 /\ IF code # SUCCESS
                    THEN /\ result' =
                                Outcome("PlanningPipelineException", code, -1, "")
                         /\ motion_plan_responses' = <<>>
                         /\ pc' = "done"
                    ELSE /\ motion_plan_responses' =
                                Append(motion_plan_responses,
                                       [trajectory |-> [group |-> req.group_name,
                                                        last |-> last],
                                        error_code |-> code])
                         /\ UNCHANGED <<result, pc>>
    /\ UNCHANGED <<model_, plan_comp_builder_, calls, req_list, resp_cont,
                   radii, res_vec, built, traj_k, i, builder_log,
                   builder_before,
                   radii_log>>

\* Mutant: the builder is reset before the overlap check.
CheckOverlapAfterReset ==
    /\ pc = "solveSequenceItems"
    /\ Len(motion_plan_responses) = Len(req_list)
    /\ resp_cont' = motion_plan_responses
    /\ motion_plan_responses' = <<>>
    /\ radii' = extractBlendRadii(model_, req_list)
    /\ radii_log' = extractBlendRadiiChecks(model_, req_list)
    /\ plan_comp_builder_' = <<>>
    /\ builder_log' = Append(builder_log, BuilderCall("reset", NoTrajectory, 0))
    /\ LET e == checkForOverlappingRadii(resp_cont', radii')
       IN  IF e.kind # NoException
           THEN result' = e /\ pc' = "done"
           ELSE result' = result /\ pc' = "append"
    /\ UNCHANGED <<model_, calls, req_list, res_vec, built, traj_k, i,
                   planner_log, builder_before>>

\* solve, lines 100-104: solveSequenceItems returns its responses, the
\* radii are extracted and checked for overlaps.
CheckOverlap ==
    /\ pc = "solveSequenceItems"
    /\ Len(motion_plan_responses) = Len(req_list)
    /\ resp_cont' = motion_plan_responses
    /\ motion_plan_responses' = <<>>
    /\ radii' = extractBlendRadii(model_, req_list)
    /\ radii_log' = extractBlendRadiiChecks(model_, req_list)
    /\ LET e == checkForOverlappingRadii(resp_cont', radii')
       IN  IF e.kind # NoException
           THEN result' = e /\ pc' = "done"
           ELSE result' = result /\ pc' = "reset"
    /\ UNCHANGED <<model_, plan_comp_builder_, calls, req_list, res_vec,
                   built, traj_k, i, planner_log, builder_log, builder_before>>

\* Mutant: solve goes on to the appends without a reset of the builder.
BuilderResetSkipped ==
    /\ pc = "reset"
    /\ i' = 0
    /\ pc' = "append"
    /\ UNCHANGED <<model_, plan_comp_builder_, calls, req_list,
                   motion_plan_responses, resp_cont, radii, res_vec, built,
                   traj_k, result, planner_log, builder_log, builder_before,
                   radii_log>>

\* solve, line 106
BuilderReset ==
    /\ pc = "reset"
    /\ plan_comp_builder_' = <<>>
    /\ builder_log' = Append(builder_log, BuilderCall("reset", NoTrajectory, 0))
    /\ i' = 0
    /\ pc' = "append"
    /\ UNCHANGED <<model_, calls, req_list, motion_plan_responses, resp_cont,
                   radii, res_vec, built, traj_k, result, planner_log,
                   builder_before,
                   radii_log>>

\* Mutant: the radius of the index itself.
incomingRadiusSameIndex(rad, k) == rad[k + 1]

\* The third argument of append for the C++ index k: radii.at(k - 1) or 0.
incomingRadius(rad, k) == IF k > 0 THEN rad[(k - 1) + 1] ELSE 0

\* solve, lines 107-114: one pass of the loop.
BuilderAppend ==
    /\ pc = "append"
    /\ i < Len(resp_cont)
    /\ LET call == BuilderCall("append", resp_cont[i + 1].trajectory,
                               incomingRadius(radii, i))
       IN  /\ plan_comp_builder_' = Append(plan_comp_builder_, call)
           /\ builder_log' = Append(builder_log, call)
    /\ i' = i + 1
    /\ UNCHANGED <<model_, pc, calls, req_list, motion_plan_responses,
                   resp_cont, radii, res_vec, built, traj_k, result,
                   planner_log, builder_before,
                   radii_log>>

\* solve, line 116: build() returns the merged trajectories.
BuilderBuildWith(times) ==
    /\ pc = "append"
    /\ ~(i < Len(resp_cont))
    /\ res_vec' \in buildResults(plan_comp_builder_, times)
    /\ built' = res_vec'
    /\ builder_log' = Append(builder_log, BuilderCall("build", NoTrajectory, 0))
    /\ traj_k' = 1
    /\ i' = 0
    /\ pc' = "dedup"
    /\ UNCHANGED <<model_, plan_comp_builder_, calls, req_list,
                   motion_plan_responses, resp_cont, radii, result,
                   planner_log, builder_before,
                   radii_log>>

\* The way points of the trajectory the range-for of line 122 is at.
traj == res_vec[traj_k].waypoints

\* getWayPointDurationFromStart of the C++ index k
getWayPointDurationFromStart(waypoints, k) == waypoints[k + 1].time

\* removeWayPoint of the C++ index k
removeWayPoint(waypoints, k) == RemoveAt(waypoints, k + 1)

\* Mutant: the first way point of the pair of equal times is removed.
DedupStepRemovesFirst ==
    /\ pc = "dedup"
    /\ traj_k <= Len(res_vec)
    /\ i < SizeSub(Len(traj), 1)
    /\ i + 1 < Len(traj)
    /\ IF getWayPointDurationFromStart(traj, i) =
          getWayPointDurationFromStart(traj, i + 1)
       THEN res_vec' = [res_vec EXCEPT ![traj_k].waypoints =
                                            removeWayPoint(traj, i)]
       ELSE res_vec' = res_vec
    /\ i' = i + 1
    /\ UNCHANGED <<model_, plan_comp_builder_, pc, calls, req_list,
                   motion_plan_responses, resp_cont, radii, built, traj_k,
                   result, planner_log, builder_log, builder_before,
                   radii_log>>

\* solve, lines 124-131: one pass of the inner loop; both way points it
\* reads are way points of the trajectory.
DedupStep ==
    /\ pc = "dedup"
    /\ traj_k <= Len(res_vec)
    /\ i < SizeSub(Len(traj), 1)
    /\ i + 1 < Len(traj)
    /\ IF getWayPointDurationFromStart(traj, i) =
          getWayPointDurationFromStart(traj, i + 1)
       THEN res_vec' = [res_vec EXCEPT ![traj_k].waypoints =
                                            removeWayPoint(traj, i + 1)]
       ELSE res_vec' = res_vec
    /\ i' = i + 1
    /\ UNCHANGED <<model_, plan_comp_builder_, pc, calls, req_list,
                   motion_plan_responses, resp_cont, radii, built, traj_k,
                   result, planner_log, builder_log, builder_before,
                   radii_log>>

\* solve, line 124: the inner loop ends, the range-for goes on.
DedupNextTrajectory ==
    /\ pc = "dedup"
    /\ traj_k <= Len(res_vec)
    /\ ~(i < SizeSub(Len(traj), 1))
    /\ traj_k' = traj_k + 1
    /\ i' = 0
    /\ UNCHANGED <<model_, plan_comp_builder_, pc, calls, req_list,
                   motion_plan_responses, resp_cont, radii, res_vec, built,
                   result, planner_log, builder_log, builder_before,
                   radii_log>>

\* solve, lines 124-129 for a trajectory without way points: size() - 1
\* wraps, the condition of the loop holds and the pass reads the way
\* points i and i + 1 that the trajectory does not have. The behaviour is
\* undefined: the process is stopped, or the two reads give different
\* times and the loop goes on with the next index.
DedupOutOfBounds ==
    /\ pc = "dedup"
    /\ traj_k <= Len(res_vec)
    /\ i < SizeSub(Len(traj), 1)
    /\ ~(i + 1 < Len(traj))
    /\ \/ /\ result' = Thrown("UndefinedBehaviour")
          /\ pc' = "done"
          /\ i' = i
       \/ /\ i < MaxWaypoints
          /\ i' = i + 1
          /\ UNCHANGED <<result, pc>>
    /\ UNCHANGED <<model_, plan_comp_builder_, calls, req_list,
                   motion_plan_responses, resp_cont, radii, res_vec, built,
                   traj_k, planner_log, builder_log, builder_before,
                   radii_log>>

\* solve, line 134
SolveReturn ==
    /\ pc = "dedup"
    /\ traj_k > Len(res_vec)
    /\ result' = Returned
    /\ pc' = "done"
    /\ UNCHANGED <<model_, plan_comp_builder_, calls, req_list, callVars,
                   builder_before>>

\* The caller has the container or the exception.
Finish ==
    /\ pc = "done"
    /\ pc' = "idle"
    /\ calls' = calls + 1
    /\ UNCHANGED <<model_, plan_comp_builder_, req_list, callVars, result,
                   builder_before>>

\* ------------------------------------------------------- specifications

\* Spec: one solve call on a new manager, for every request list of up to
\* MaxItems items, with planned trajectories that end at one of Positions
\* and built trajectories of two way points.
Requests == ListsUpTo(MaxItems, ItemsOf(Groups, Radii, StartStates))

BuiltTimes == {<<0, 1>>, <<1, 1>>}

Init == InitWith(Models)

Call == CallWith(Requests, 1)

GeneratePlan == GeneratePlanWith(Positions)

BuilderBuild == BuilderBuildWith(BuiltTimes)

Next ==
    \/ Call
    \/ SolveEmpty
    \/ CheckRequest
    \/ GeneratePlan
    \/ CheckOverlap
    \/ BuilderReset
    \/ BuilderAppend
    \/ BuilderBuild
    \/ DedupStep
    \/ DedupNextTrajectory
    \/ SolveReturn
    \/ Finish

Spec == Init /\ [][Next]_vars

\* SpecOverlap: one solve call for every request list of up to MaxItems + 1
\* items that passes the checks of the request and declares no start state,
\* with planned trajectories that end at one of Positions.
OverlapRequests == ListsUpTo(MaxItems + 1, ItemsOf(Groups, {0, 1}, {{}}))

CallOverlap ==
    /\ CallWith(OverlapRequests, 1)
    /\ (req_list' = <<>> \/ structuralChecks(req_list').kind = NoException)

GeneratePlanOverlap == GeneratePlanWith(Positions)

BuilderBuildOverlap == BuilderBuildWith({<<0, 1>>})

NextOverlap ==
    \/ CallOverlap
    \/ SolveEmpty
    \/ CheckRequest
    \/ GeneratePlanOverlap
    \/ CheckOverlap
    \/ BuilderReset
    \/ BuilderAppend
    \/ BuilderBuildOverlap
    \/ DedupStep
    \/ DedupNextTrajectory
    \/ SolveReturn
    \/ Finish

SpecOverlap == Init /\ [][NextOverlap]_vars

\* SpecDedup: one solve call for the request lists of up to two items
\* without blending, with every built trajectory of up to MaxWaypoints way
\* points whose times do not decrease and do not exceed MaxTime.
DedupRequests == ListsUpTo(2, ItemsOf(Groups, {0}, {{}}))

InitDedup == InitWith({Groups})

CallDedup == CallWith(DedupRequests, 1)

GeneratePlanDedup == GeneratePlanWith({0})

BuilderBuildDedup == BuilderBuildWith(TimesUpTo(MaxWaypoints, MaxTime))

NextDedup ==
    \/ CallDedup
    \/ SolveEmpty
    \/ CheckRequest
    \/ GeneratePlanDedup
    \/ CheckOverlap
    \/ BuilderReset
    \/ BuilderAppend
    \/ BuilderBuildDedup
    \/ DedupStep
    \/ DedupNextTrajectory
    \/ SolveReturn
    \/ Finish

SpecDedup == InitDedup /\ [][NextDedup]_vars

\* SpecDedupAny: as SpecDedup, with a builder that can also return a
\* trajectory without way points.
BuilderBuildAny ==
    BuilderBuildWith(TimesUpTo(MaxWaypoints, MaxTime) \cup {<<>>})

NextDedupAny ==
    \/ CallDedup
    \/ SolveEmpty
    \/ CheckRequest
    \/ GeneratePlanDedup
    \/ CheckOverlap
    \/ BuilderReset
    \/ BuilderAppend
    \/ BuilderBuildAny
    \/ DedupStep
    \/ DedupOutOfBounds
    \/ DedupNextTrajectory
    \/ SolveReturn
    \/ Finish

SpecDedupAny == InitDedup /\ [][NextDedupAny]_vars

\* SpecSeq: MaxCalls solve calls one after the other on one manager, for
\* the request lists of up to three items of one group.
SeqRequests ==
    ListsUpTo(3, ItemsOf({"g1"}, Radii, {{}, {"position"}}))

CallSeq == CallWith(SeqRequests, MaxCalls)

GeneratePlanSeq == GeneratePlanWith(Positions)

NextSeq ==
    \/ CallSeq
    \/ SolveEmpty
    \/ CheckRequest
    \/ GeneratePlanSeq
    \/ CheckOverlap
    \/ BuilderReset
    \/ BuilderAppend
    \/ BuilderBuildOverlap
    \/ DedupStep
    \/ DedupNextTrajectory
    \/ SolveReturn
    \/ Finish

SpecSeq == InitDedup /\ [][NextSeq]_vars

\* ------------------------------------------------------------- the claims

\* The call has passed the checks of the request or has ended.
PastChecks == pc \notin {"idle", "solve"} \/ (pc = "idle" /\ calls > 0)

\* The call has ended: the caller has the container or the exception.
Ended == pc = "done" \/ (pc = "idle" /\ calls > 0)

HasNegativeRadius(r) == \E k \in 1..Len(r) : r[k].blend_radius < 0

\* C1: a request list with a negative blend radius makes solve end with
\* the exception of the negative blend radius, and the planner was never
\* called when it is thrown.
C1_NegativeRadiusThrows ==
    (PastChecks /\ HasNegativeRadius(req_list)) =>
        /\ Ended
        /\ result.kind = "NegativeBlendRadiusException"
        /\ planner_log = <<>>

\* A list of three items whose second radius alone is negative was refused.
C1_Witness ==
    /\ pc = "done"
    /\ Len(req_list) = 3
    /\ req_list[1].blend_radius > 0
    /\ req_list[2].blend_radius < 0
    /\ req_list[3].blend_radius = 0
    /\ result.kind = "NegativeBlendRadiusException"

\* C2 as stated: a non-empty list whose last blend radius is not zero makes
\* solve end with the exception of the last blend radius and without a
\* trajectory; a list whose last radius is zero never ends with it.
C2_LastRadiusAlwaysItsOwnError ==
    (PastChecks /\ req_list # <<>>) =>
        /\ Last(req_list).blend_radius # 0 =>
              /\ Ended
              /\ result.kind = "LastBlendRadiusNotZeroException"
              /\ res_vec = <<>>
        /\ Last(req_list).blend_radius = 0 =>
              result.kind # "LastBlendRadiusNotZeroException"

\* C2 amended: a non-empty list whose last blend radius is not zero makes
\* solve fail without a trajectory, with the exception of the last blend
\* radius unless a radius of the list is negative, and then with the
\* exception of the negative radius; a list whose last radius is zero never
\* ends with the exception of the last blend radius.
C2_LastRadiusRejected ==
    (PastChecks /\ req_list # <<>>) =>
        /\ Last(req_list).blend_radius # 0 =>
              /\ Ended
              /\ result.kind =
                    IF HasNegativeRadius(req_list)
                    THEN "NegativeBlendRadiusException"
                    ELSE "LastBlendRadiusNotZeroException"
              /\ res_vec = <<>>
        /\ Last(req_list).blend_radius = 0 =>
              result.kind # "LastBlendRadiusNotZeroException"

\* A list of two items with a positive last radius was refused for it.
C2_Witness ==
    /\ pc = "done"
    /\ Len(req_list) = 2
    /\ req_list[1].blend_radius = 0
    /\ req_list[2].blend_radius > 0
    /\ result.kind = "LastBlendRadiusNotZeroException"
    /\ res_vec = <<>>

\* An item that is not the first of its group declares a start state.
LaterItemWithStartState(r) ==
    \E k \in 1..Len(r) :
        /\ \E j \in 1..(k - 1) : r[j].group_name = r[k].group_name
        /\ r[k].start_state.joint_state # {}

\* C3: for a list of two or more items with radii that are not negative
\* and a last radius of zero, solve ends with the exception of the start
\* state exactly if an item that is not the first of its group in the list
\* has a non-empty field of its start state.
C3_StartStateConflictIff ==
    (/\ PastChecks
     /\ Len(req_list) >= 2
     /\ ~HasNegativeRadius(req_list)
     /\ Last(req_list).blend_radius = 0) =>
        (result.kind = "StartStateSetException"
            <=> LaterItemWithStartState(req_list))

\* The first items of two groups declare start states, which is accepted;
\* the third item is the second of its group and names joints: refused.
C3_Witness ==
    /\ pc = "done"
    /\ Len(req_list) = 3
    /\ req_list[1].group_name # req_list[2].group_name
    /\ req_list[1].start_state.joint_state # {}
    /\ req_list[2].start_state.joint_state # {}
    /\ req_list[3].group_name = req_list[1].group_name
    /\ req_list[3].start_state.joint_state = {"name"}
    /\ result.kind = "StartStateSetException"

\* The planner reported a failure for the call e of the log.
PlannerFailed(e) == ~e.generated \/ e.val # SUCCESS

\* C4: the planner is called for the items in order; a failure of the
\* planner for item k (its return value or its error code) ends solve at
\* once with the exception of the planning pipeline: no later item is
\* planned, the responses so far are gone, nothing was given to the builder
\* and no trajectory is returned. The exception is thrown for no other
\* reason.
C4_FailFast ==
    /\ \A n \in 1..Len(planner_log) :
          /\ planner_log[n].index = n - 1
          /\ PlannerFailed(planner_log[n]) =>
                /\ n = Len(planner_log)
                /\ Ended
                /\ result.kind = "PlanningPipelineException"
                /\ motion_plan_responses = <<>>
                /\ resp_cont = <<>>
                /\ res_vec = <<>>
                /\ builder_log = <<>>
    /\ result.kind = "PlanningPipelineException" =>
          /\ planner_log # <<>>
          /\ PlannerFailed(Last(planner_log))

\* The second of three items failed by the return value of the planner,
\* after the first one had been planned.
C4_Witness ==
    /\ pc = "done"
    /\ Len(req_list) = 3
    /\ Len(planner_log) = 2
    /\ ~planner_log[2].generated
    /\ planner_log[2].val = SUCCESS
    /\ result.kind = "PlanningPipelineException"

\* The times of the way points grow strictly.
StrictlyIncreasing(waypoints) ==
    \A j \in 1..(Len(waypoints) - 1) : waypoints[j].time < waypoints[j + 1].time

\* C5 as stated: every trajectory that solve returns has strictly
\* increasing times, for every trajectory of the builder whose times do
\* not decrease, runs of three and more equal times included.
C5_ReturnedTimesStrictlyIncrease ==
    (Ended /\ result.kind = "ok") =>
        \A k \in 1..Len(res_vec) : StrictlyIncreasing(res_vec[k].waypoints)

\* The pair i, i + 1 (C++ indices) of the responses overlaps: one group,
\* a sum of the resolved radii above zero, and ends within that sum.
PairOverlaps(resps, rad, k) ==
    /\ resps[k + 1].trajectory.group = resps[k + 2].trajectory.group
    /\ rad[k + 1] + rad[k + 2] > 0
    /\ Abs(resps[k + 1].trajectory.last - resps[k + 2].trajectory.last)
          <= rad[k + 1] + rad[k + 2]

OverlappingPairs(resps, rad) ==
    {k \in 0..(Len(resps) - 3) : PairOverlaps(resps, rad, k)}

\* C6: for a valid list whose N items were all planned, solve ends with
\* the exception of overlapping radii exactly if N >= 3 and a pair i, i + 1
\* with i in 0..N-3 overlaps, and the exception names the smallest such i.
C6_OverlapIff ==
    (resp_cont # <<>>) =>
        LET pairs == OverlappingPairs(resp_cont, radii)
        IN  /\ Len(resp_cont) = Len(req_list)
            /\ result.kind = "OverlappingBlendRadiiException"
                  <=> (Len(resp_cont) >= 3 /\ pairs # {})
            /\ result.kind = "OverlappingBlendRadiiException" =>
                  /\ result.index \in pairs
                  /\ \A k \in pairs : result.index <= k

\* Four responses: the pair 0, 1 misses the overlap by one, the pair 1, 2
\* ends exactly as far apart as the sum of its radii and is named.
C6_Witness ==
    /\ pc = "done"
    /\ Len(resp_cont) = 4
    /\ result.kind = "OverlappingBlendRadiiException"
    /\ result.index = 1
    /\ resp_cont[1].trajectory.group = resp_cont[2].trajectory.group
    /\ radii[1] + radii[2] > 0
    /\ Abs(resp_cont[1].trajectory.last - resp_cont[2].trajectory.last)
          = radii[1] + radii[2] + 1
    /\ Abs(resp_cont[2].trajectory.last - resp_cont[3].trajectory.last)
          = radii[2] + radii[3]

\* C7 as stated: a list of at most one item passes all checks of the
\* request: solve never ends with one of their exceptions.
C7_ShortListsSkipAllChecks ==
    (Ended /\ Len(req_list) <= 1) => result.kind \notin StructuralErrors

\* C7 amended: a list of at most one item never ends with the exception
\* of the start state, whatever start state the item declares; a list of one
\* item is refused for a negative radius and for a positive one (it is the
\* last radius); a list of one item with radius zero ends with a container
\* exactly if its one plan succeeded, the container then holds one
\* trajectory, and the builder got reset, one append with radius 0, build.
C7_ShortLists ==
    /\ (Ended /\ Len(req_list) <= 1) => result.kind # "StartStateSetException"
    /\ (PastChecks /\ Len(req_list) = 1 /\ req_list[1].blend_radius < 0) =>
          Ended /\ result.kind = "NegativeBlendRadiusException"
    /\ (PastChecks /\ Len(req_list) = 1 /\ req_list[1].blend_radius > 0) =>
          Ended /\ result.kind = "LastBlendRadiusNotZeroException"
    /\ (Ended /\ Len(req_list) = 1 /\ req_list[1].blend_radius = 0) =>
          /\ Len(planner_log) = 1
          /\ result.kind = IF PlannerFailed(planner_log[1])
                           THEN "PlanningPipelineException" ELSE "ok"
          /\ result.kind = "ok" =>
                /\ Len(res_vec) = 1
                /\ builder_log =
                      <<BuilderCall("reset", NoTrajectory, 0),
                        BuilderCall("append", resp_cont[1].trajectory, 0),
                        BuilderCall("build", NoTrajectory, 0)>>

\* A single item with a start state was planned and assembled.
C7_Witness ==
    /\ pc = "done"
    /\ Len(req_list) = 1
    /\ req_list[1].start_state.joint_state # {}
    /\ result.kind = "ok"
    /\ Len(res_vec) = 1

\* C8: a pair of consecutive responses of different groups is never the
\* pair the exception of overlapping radii names, whatever the radii and
\* the distance of the ends; if no pair of consecutive responses is of one
\* group, the exception is not thrown.
C8_CrossGroupNeverOverlaps ==
    /\ result.kind = "OverlappingBlendRadiiException" =>
          resp_cont[result.index + 1].trajectory.group =
              resp_cont[result.index + 2].trajectory.group
    /\ (\A k \in 1..(Len(resp_cont) - 1) :
            resp_cont[k].trajectory.group # resp_cont[k + 1].trajectory.group)
          => result.kind # "OverlappingBlendRadiiException"

\* The overlap check passed a pair of different groups whose ends are
\* closer than the sum of their resolved radii, which is above zero.
C8_Witness ==
    /\ pc = "reset"
    /\ \E k \in 0..(Len(resp_cont) - 3) :
          /\ resp_cont[k + 1].trajectory.group # resp_cont[k + 2].trajectory.group
          /\ radii[k + 1] + radii[k + 2] > 0
          /\ Abs(resp_cont[k + 1].trajectory.last - resp_cont[k + 2].trajectory.last)
                < radii[k + 1] + radii[k + 2]

\* C9: when solve ends with an exception of the checks of the request, the
\* planner was not called and the builder got no call: it is as it was
\* when the call began.
C9_StructuralErrorsBeforeWork ==
    result.kind \in StructuralErrors =>
        /\ planner_log = <<>>
        /\ builder_log = <<>>
        /\ plan_comp_builder_ = builder_before

\* A second call is refused for a start state while the builder holds the
\* segments of the first call.
C9_Witness ==
    /\ pc = "done"
    /\ calls = 1
    /\ result.kind = "StartStateSetException"
    /\ Len(plan_comp_builder_) >= 2

\* C10: when solve ends with the exception of overlapping radii, the
\* planner was called once for each of the N items, in order, and each
\* call succeeded; the builder got no call and is as it was when the call
\* began.
C10_OverlapAfterPlanningBeforeAssembly ==
    result.kind = "OverlappingBlendRadiiException" =>
        /\ Len(planner_log) = Len(req_list)
        /\ \A n \in 1..Len(planner_log) :
              /\ planner_log[n].index = n - 1
              /\ ~PlannerFailed(planner_log[n])
        /\ builder_log = <<>>
        /\ plan_comp_builder_ = builder_before

\* A second call ends with overlapping radii while the builder holds the
\* segments of the first call.
C10_Witness ==
    /\ pc = "done"
    /\ calls = 1
    /\ result.kind = "OverlappingBlendRadiiException"
    /\ Len(plan_comp_builder_) >= 2

\* C11: the exception of a failed planner call carries the index of the
\* failing item and the error code the planner reported, whether the
\* planner returned false or returned with a code that is not SUCCESS.
C11_ExceptionCarriesIndexAndCode ==
    result.kind = "PlanningPipelineException" =>
        /\ result.index = Last(planner_log).index
        /\ result.error_code = Last(planner_log).val

\* The planner calls before call n of this solve whose item is of the
\* group of item n; each of them returned a plan, or call n was not made.
EarlierOfGroup(n) ==
    {j \in 1..(n - 1) : req_list[j].group_name = req_list[n].group_name}

\* C13: the planner is called for every item with the start state that is
\* the last way point of the most recent earlier response of the item's
\* group, the responses of other groups in between notwithstanding; if
\* there is no earlier response of the group, with the start state of the
\* item, unchanged.
C13_StartStateChaining ==
    \A n \in 1..Len(planner_log) :
        LET earlier == EarlierOfGroup(n)
            start_state == planner_log[n].req.start_state
        IN  /\ planner_log[n].req.group_name = req_list[n].group_name
            /\ IF earlier = {}
               THEN start_state = req_list[n].start_state
               ELSE LET j == CHOOSE k \in earlier : \A m \in earlier : m <= k
                    IN  /\ start_state.from_waypoint = planner_log[j].last
                        /\ start_state.from_waypoint # NoWaypoint
                        /\ ~startStateIsEmpty(start_state)

\* The third item is planned from the end of the first one, an item of
\* another group in between, and the two earlier plans end at different
\* positions.
C13_Witness ==
    /\ Len(planner_log) = 3
    /\ req_list[1].group_name = req_list[3].group_name
    /\ req_list[2].group_name # req_list[3].group_name
    /\ planner_log[1].last # planner_log[2].last
    /\ planner_log[3].req.start_state.from_waypoint = planner_log[1].last

\* The third item is planned from the end of the second one, the three
\* items of one group and the two earlier plans ending at different
\* positions.
C13_WitnessSameGroup ==
    /\ Len(planner_log) = 3
    /\ req_list[1].group_name = req_list[3].group_name
    /\ req_list[2].group_name = req_list[3].group_name
    /\ planner_log[1].last # planner_log[2].last
    /\ planner_log[3].req.start_state.from_waypoint = planner_log[2].last

\* The blend radius the specification resolves for the pair of the items k
\* and k + 1 of the request list (1-based): the radius item k declares if
\* it is not zero, the two items are of one group and the model has a
\* solver for the group, and zero otherwise.
ResolvedRadius(k) ==
    IF /\ req_list[k].blend_radius # 0
       /\ req_list[k].group_name = req_list[k + 1].group_name
       /\ req_list[k].group_name \in model_
    THEN req_list[k].blend_radius
    ELSE 0

\* The append calls the builder is to see for the first n responses.
ExpectedAppends(n) ==
    [k \in 1..n |->
        BuilderCall("append", resp_cont[k].trajectory,
                    IF k = 1 THEN 0 ELSE ResolvedRadius(k - 1))]

\* C14: in a solve that reaches the assembly the builder gets one reset,
\* then one append for each of the N responses in their order, then one
\* build; the append of response 0 carries the radius 0 and the append of
\* response i > 0 the resolved radius of the pair i - 1, the one declared
\* on item i - 1, and not the radius of the pair i.
C14_IncomingRadius ==
    LET reset == BuilderCall("reset", NoTrajectory, 0)
        build == BuilderCall("build", NoTrajectory, 0)
    IN  /\ pc = "append" => builder_log = <<reset>> \o ExpectedAppends(i)
        /\ (pc = "dedup" \/ (result = Returned /\ req_list # <<>>)) =>
               builder_log =
                   <<reset>> \o ExpectedAppends(Len(req_list)) \o <<build>>

\* A solve of four items returned; the resolved radii are 1, 0, 1 and the
\* appends carried 0, 1, 0, 1.
C14_Witness ==
    /\ result = Returned
    /\ Len(req_list) = 4
    /\ ResolvedRadius(1) = 1 /\ ResolvedRadius(2) = 0 /\ ResolvedRadius(3) = 1
    /\ Len(builder_log) = 6
    /\ builder_log[2].blend_radius = 0
    /\ builder_log[3].blend_radius = 1
    /\ builder_log[4].blend_radius = 0
    /\ builder_log[5].blend_radius = 1

\* The radii of the call have been extracted.
RadiiExtracted ==
    \/ pc \in {"reset", "append", "dedup"}
    \/ result.kind = "OverlappingBlendRadiiException"
    \/ (result = Returned /\ req_list # <<>>)

\* C15: for every pair of adjacent items i, i + 1 the extracted radius at
\* i is the radius item i declares if that is not zero, the two items are
\* of one group and the group has a solver, and zero otherwise. The
\* extraction does not fail: once every item is planned the radii are
\* there, one check of every pair made. For an item that declares the
\* radius zero neither the groups are compared nor the solver looked up.
C15_Resolution ==
    RadiiExtracted =>
        /\ Len(radii) >= Len(req_list) - 1
        /\ Len(radii_log) = Len(req_list) - 1
        /\ \A k \in 1..(Len(req_list) - 1) :
              /\ radii[k] = ResolvedRadius(k)
              /\ radii_log[k][1] = "radius"
              /\ req_list[k].blend_radius = 0 =>
                    \A n \in 1..Len(radii_log[k]) :
                        radii_log[k][n] \notin {"group", "solver"}

\* The radii are extracted for a model without a solver for a group: one
\* pair of that group declares a radius and gets zero, one pair of the
\* other group gets the radius it declares, one item declares zero.
C15_Witness ==
    /\ pc = "reset"
    /\ \E k \in 1..(Len(req_list) - 1) :
          /\ req_list[k].blend_radius # 0
          /\ req_list[k].group_name = req_list[k + 1].group_name
          /\ req_list[k].group_name \notin model_
          /\ radii[k] = 0
    /\ \E k \in 1..(Len(req_list) - 1) :
          /\ req_list[k].blend_radius # 0
          /\ radii[k] = req_list[k].blend_radius
    /\ \E k \in 1..(Len(req_list) - 1) :
          /\ req_list[k].blend_radius = 0
          /\ radii_log[k] = <<"radius">>

\* C16 as claimed: the container of the radii of N items has N - 1
\* entries, one less than there are responses.
C16_OneEntryPerPair ==
    RadiiExtracted =>
        /\ Len(radii) = Len(req_list) - 1
        /\ Len(radii) = Len(resp_cont) - 1

\* C16, amended: the container of the radii of N items has N entries, as
\* many as there are responses; the entries 0 .. N-2 are the radii of the
\* pairs and the entry N-1, which no pair has, is zero.
C16_OneEntryPerItem ==
    RadiiExtracted =>
        /\ Len(radii) = Len(req_list)
        /\ Len(radii) = Len(resp_cont)
        /\ radii[Len(radii)] = 0
        /\ \A k \in 1..(Len(req_list) - 1) : radii[k] = ResolvedRadius(k)

\* The radii of three items are extracted: three entries, one for each of
\* the two pairs and a zero.
C16_Witness ==
    /\ pc = "reset"
    /\ Len(req_list) = 3
    /\ Len(resp_cont) = 3
    /\ radii = <<0, 1, 0>>

\* No two consecutive way points have one time.
NoEqualNeighbours(waypoints) ==
    \A j \in 1..(Len(waypoints) - 1) : waypoints[j].time # waypoints[j + 1].time

\* The way points r are way points of b in the order they have in b.
IsSubsequenceOf(r, b) ==
    /\ \A j \in 1..Len(r) : r[j].id \in 1..Len(b) /\ r[j] = b[r[j].id]
    /\ \A j \in 1..(Len(r) - 1) : r[j].id < r[j + 1].id

\* Trajectory k of the container, against the one build() returned: it is
\* a subsequence of it, it has the first way point of every time, and it
\* is the built one if that has no two neighbours of one time.
DedupKeeps(k) ==
    LET b == built[k].waypoints
        r == res_vec[k].waypoints
    IN  /\ res_vec[k].group = built[k].group
        /\ IsSubsequenceOf(r, b)
        /\ \A j \in 1..Len(b) :
              (\A m \in 1..(j - 1) : b[m].time # b[j].time) =>
                  \E n \in 1..Len(r) : r[n] = b[j]
        /\ NoEqualNeighbours(b) => r = b

\* A step of the pass over the built trajectories that changes the
\* container removes one way point of the trajectory the pass is at, one
\* whose time is the time of the way point before it.
DedupRemovesOnlyDuplicates ==
    (pc = "dedup" /\ res_vec' # res_vec) =>
        \E p \in 2..Len(traj) :
            /\ traj[p].time = traj[p - 1].time
            /\ res_vec' = [res_vec EXCEPT ![traj_k].waypoints = RemoveAt(traj, p)]

\* C17: the pass only removes a way point whose time is that of the way
\* point right before it when it is removed; at every moment, and in what
\* solve returns, every trajectory is a subsequence of the one the builder
\* returned, in its order, the first way point of every time is kept, and
\* a trajectory without two consecutive equal times is unchanged.
C17_DedupFrame ==
    /\ [](Len(res_vec) = Len(built) /\ \A k \in 1..Len(built) : DedupKeeps(k))
    /\ [][DedupRemovesOnlyDuplicates]_vars

\* solve returned a trajectory of two way points that the builder
\* returned with four, two of each time.
C17_Witness ==
    /\ result = Returned
    /\ Len(built) >= 1
    /\ Len(built[1].waypoints) = 4
    /\ Len(res_vec[1].waypoints) = 2
    /\ res_vec[1].waypoints[1].id = 1
    /\ res_vec[1].waypoints[2].id = 3

\* C18: solve of an empty request list returns an empty container and
\* throws nothing; it goes through no other step of solve, the planner is
\* not called, the builder gets no reset, append or build and holds what
\* it held when the call began.
C18_EmptyRequestList ==
    req_list = <<>> =>
        /\ pc \in {"idle", "solve", "done"}
        /\ Ended =>
              /\ result = Returned
              /\ res_vec = <<>>
              /\ planner_log = <<>>
              /\ builder_log = <<>>
              /\ plan_comp_builder_ = builder_before

\* A second call, of an empty list, returned while the builder holds the
\* segments of the first call.
C18_Witness ==
    /\ pc = "done"
    /\ calls = 1
    /\ req_list = <<>>
    /\ result = Returned
    /\ Len(plan_comp_builder_) >= 2

\* C19: what the builder holds during the assembly of a call, and what it
\* builds, is given by the request list, the model and the planner's
\* responses of this call alone: the segments are the appends of this
\* call, in their order, whatever the builder held when the call began,
\* and the built trajectories are those of the groups of these segments.
C19_CallsIndependent ==
    /\ pc = "append" => plan_comp_builder_ = ExpectedAppends(i)
    /\ (pc = "dedup" \/ (result = Returned /\ req_list # <<>>)) =>
          /\ plan_comp_builder_ = ExpectedAppends(Len(req_list))
          /\ [k \in 1..Len(built) |-> built[k].group] =
                 groupRuns(ExpectedAppends(Len(req_list)))

\* The second call builds one segment while the builder held the three
\* segments of the first call when it began.
C19_Witness ==
    /\ pc = "dedup"
    /\ calls = 1
    /\ Len(builder_before) = 3
    /\ Len(plan_comp_builder_) = 1
    /\ Len(built) = 1

\* C20: whenever the pass over a built trajectory enters the body of its
\* loop, the way points i and i + 1 it reads, and i + 1 it may remove, are
\* way points of the trajectory as it is then, for every trajectory the
\* builder returns, one without way points and one that has lost way
\* points during the pass included; the index stays within the built
\* trajectory and the pass does not end in undefined behaviour.
C20_DedupInBounds ==
    /\ (pc = "dedup" /\ traj_k <= Len(res_vec) /\ i < SizeSub(Len(traj), 1)) =>
          /\ i + 1 < Len(traj)
          /\ i + 1 < Len(built[traj_k].waypoints)
    /\ result.kind # "UndefinedBehaviour"

====
